---- MODULE Spec2Model ----
(***************************************************************************)
(* Clock configuration of the lpc11uxx-hal crate (src/src/clock.rs):       *)
(* the ClocksBuilder request, its validation into a ClocksDescriptor, the  *)
(* register sequence of ClocksDescriptor::build, and the peripheral clock  *)
(* operations of USARTClock, USBClock and Syscon.                          *)
(*                                                                         *)
(* Frequencies are u32 values in hertz.  TLC integers are 32-bit signed,   *)
(* so inputs are drawn below 2^31 and the values that can leave that range *)
(* (the products 2*k*freq of calculate_m_p) are kept as two limbs          *)
(* [hi, lo] of value hi * 2^30 + lo, reduced modulo 2^32.                  *)
(***************************************************************************)
EXTENDS Integers, Sequences, FiniteSets, TLC

VARIABLES
    overflow_checks,  \* build profile: TRUE = arithmetic overflow panics, FALSE = it wraps
    builder,          \* ClocksBuilder
    pc,               \* position of the program
    validation,       \* outcome of ClocksBuilder::validate (panic, or descriptor and locals)
    descriptor,       \* ClocksDescriptor handed to build
    hw,               \* SYSCON / FLASHCTRL registers
    settle_i,         \* counter of the crystal settle loop in build
    trace,            \* register accesses of build, in order
    clocks,           \* Clocks handle returned by build
    mul,              \* a use of Hertz * u32: operands and result
    primask,          \* TRUE while the processor masks interrupts (cortex_m::interrupt::free)
    rmw,              \* register value read by the modify() in progress
    call,             \* locals of the peripheral-clock operation in progress
    isr               \* what the interrupt handler last wrote to its field of each shared register

vars == <<overflow_checks, builder, pc, validation, descriptor, hw, settle_i, trace, clocks, mul,
          primask, rmw, call, isr>>

\* the state of the peripheral-clock operations and of the interrupt handler
capability == <<primask, rmw, call, isr>>

----------------------------------------------------------------------------
(* Option<T> *)
None == << >>
Some(v) == <<v>>
IsSome(o) == o # << >>
IsNone(o) == o = << >>
Unwrapped(o) == o[1]

(* Outcome of a function that may panic (minipanic!, miniassert!, or an     *)
(* arithmetic panic).                                                      *)
Ok(v) == [ok |-> TRUE, val |-> v]
Panic(e) == [ok |-> FALSE, err |-> e]

----------------------------------------------------------------------------
(* u32 values that may exceed 2^31 - 1: limbs of value hi * 2^30 + lo.     *)
B30 == 2^30
B29 == 2^29

U32(n) == [hi |-> n \div B30, lo |-> n % B30]

\* 2 * x modulo 2^32
U32Double(x) == [hi |-> (2 * x.hi + x.lo \div B29) % 4, lo |-> 2 * (x.lo % B29)]

\* 2 * x does not fit in 32 bits
U32DoubleOverflows(x) == x.hi >= 2

\* n <= x and x < n, for a plain n below 2^30
U32Ge(x, n) == x.hi > 0 \/ x.lo >= n
U32Lt(x, n) == x.hi = 0 /\ x.lo < n

\* (2^k * f) modulo 2^32, and whether the exact product overflows u32
RECURSIVE WrappingShl(_, _)
WrappingShl(x, k) == IF k = 0 THEN x ELSE WrappingShl(U32Double(x), k - 1)

RECURSIVE ShlOverflows(_, _)
ShlOverflows(x, k) ==
    IF k = 0 THEN FALSE
    ELSE U32DoubleOverflows(x) \/ ShlOverflows(U32Double(x), k - 1)

----------------------------------------------------------------------------
(* Constants of clock.rs *)
IRC_OSCILLATOR_FREQUENCY == 12000000

WDT_OSC_RATE ==
    << 0, 600000, 1050000, 1400000, 1750000, 2100000, 2400000, 2700000,
       3000000, 3250000, 3500000, 3750000, 4000000, 4200000, 4400000, 4600000 >>

\* wdtoscctrl::FREQSEL_A: the band _0_6_MHZ is 1, ... _4_6_MHZ is 15
FREQSEL_A == 1..15

\* WDT_OSC_RATE[freq as usize]: the table is indexed from 0 in the source
wdtosc_freq_to_hertz(freq) == WDT_OSC_RATE[freq + 1]

MainClkSel == {"IRC_OSCILLATOR", "PLL_INPUT", "WATCHDOG_OSCILLATOR", "PLL_OUTPUT"}
SysPllClkSel == {"IRC", "CRYSTAL_OSCILLATOR"}

----------------------------------------------------------------------------
(* impl Mul<u32> for Hertz *)
HertzMul(self, rhs) == self + rhs

----------------------------------------------------------------------------
(* get_main_clock_freq.  system_pll is Option<<<sel, m, p>>>, watchdog_osc *)
(* is Option<<<freq, div>>>, sys_osc_freq is Option<Hertz>.                *)

\* const fn unwrap
unwrap(opt) == IF IsSome(opt) THEN Ok(Unwrapped(opt)) ELSE Panic("UnwrapNone")

\* the arms (PLL_INPUT, Some((IRC, ..))) and (PLL_INPUT, Some((CRYSTAL_OSCILLATOR, ..)))
PllInputArm(pll, sys_osc_freq) ==
    IF pll[1] = "IRC" THEN Ok(IRC_OSCILLATOR_FREQUENCY) ELSE unwrap(sys_osc_freq)

\* PllOutputArm multiplying by m where the source multiplies by m + 1
PllOutputArmTimesM(pll, sys_osc_freq) ==
    IF pll[1] = "IRC" THEN Ok(IRC_OSCILLATOR_FREQUENCY * pll[2])
    ELSE IF IsNone(sys_osc_freq) THEN Panic("UnwrapNone")
    ELSE Ok(Unwrapped(sys_osc_freq) * pll[2])

\* the arms (PLL_OUTPUT, Some((IRC, m, _))) and (PLL_OUTPUT, Some((CRYSTAL_OSCILLATOR, m, _)))
PllOutputArm(pll, sys_osc_freq) ==
    IF pll[1] = "IRC" THEN Ok(IRC_OSCILLATOR_FREQUENCY * (pll[2] + 1))
    ELSE IF ~unwrap(sys_osc_freq).ok THEN unwrap(sys_osc_freq)
    ELSE Ok(unwrap(sys_osc_freq).val * (pll[2] + 1))

\* WatchdogArm falling back to the internal oscillator where the source panics
WatchdogArmFallback(watchdog_osc) ==
    IF IsSome(watchdog_osc)
    THEN Ok(wdtosc_freq_to_hertz(Unwrapped(watchdog_osc)[1])
              \div (2 * (1 + Unwrapped(watchdog_osc)[2])))
    ELSE Ok(IRC_OSCILLATOR_FREQUENCY)

\* the arms (WATCHDOG_OSCILLATOR, _, Some((freq, div))) and (WATCHDOG_OSCILLATOR, _, None)
WatchdogArm(watchdog_osc) ==
    IF IsSome(watchdog_osc)
    THEN Ok(wdtosc_freq_to_hertz(Unwrapped(watchdog_osc)[1])
              \div (2 * (1 + Unwrapped(watchdog_osc)[2])))
    ELSE Panic("WatchdogNotConfigured")

get_main_clock_freq(main_clock_source, system_pll, watchdog_osc, sys_osc_freq) ==
    CASE main_clock_source = "IRC_OSCILLATOR" -> Ok(IRC_OSCILLATOR_FREQUENCY)
      [] main_clock_source = "PLL_INPUT" /\ IsSome(system_pll) ->
            PllInputArm(Unwrapped(system_pll), sys_osc_freq)
      [] main_clock_source = "PLL_OUTPUT" /\ IsSome(system_pll) ->
            PllOutputArm(Unwrapped(system_pll), sys_osc_freq)
      [] main_clock_source = "WATCHDOG_OSCILLATOR" -> WatchdogArm(watchdog_osc)
      [] main_clock_source = "PLL_INPUT" /\ IsNone(system_pll) -> Panic("PLLNotConfigured")
      [] main_clock_source = "PLL_OUTPUT" /\ IsNone(system_pll) -> Panic("PLLNotConfigured")

----------------------------------------------------------------------------
(* calculate_m_p *)

\* PllMultiplier without the decrement
PllMultiplierNoDecrement(freq, input_freq) == freq \div input_freq

\* let m = (freq.0 / input_freq.0) - 1, for a quotient of at least 1
PllMultiplier(freq, input_freq) == (freq \div input_freq) - 1

\* the comparison 156_000_000 <= p_val && p_val < 320_000_000
PValInRange(p_val) == U32Ge(p_val, 156000000) /\ U32Lt(p_val, 320000000)

\* the if / else-if chain over p_val1, p_val2, p_val4, p_val8
PllPostDivider(freq) ==
    LET p_val1 == WrappingShl(U32(freq), 1)
        p_val2 == WrappingShl(U32(freq), 2)
        p_val4 == WrappingShl(U32(freq), 3)
        p_val8 == WrappingShl(U32(freq), 4)
    IN  IF PValInRange(p_val1) THEN Ok(0)
        ELSE IF PValInRange(p_val2) THEN Ok(1)
        ELSE IF PValInRange(p_val4) THEN Ok(2)
        ELSE IF PValInRange(p_val8) THEN Ok(3)
        ELSE Panic("NoValidPostDivider")

calculate_m_p(freq, sys_osc, checks) ==
    LET input_freq == IF IsSome(sys_osc) THEN Unwrapped(sys_osc)
                      ELSE IRC_OSCILLATOR_FREQUENCY
    IN  IF input_freq = 0 THEN Panic("DivideByZero")
        ELSE IF freq % input_freq # 0 THEN Panic("NotIntegerMultiple")
        ELSE IF freq \div input_freq = 0
             \* 0 - 1: panics with overflow checks, else wraps to u32::MAX, not below 32
             THEN (IF checks THEN Panic("ArithmeticOverflow")
                   ELSE Panic("MultiplierOutOfRange"))
        ELSE IF ~(PllMultiplier(freq, input_freq) < 32) THEN Panic("MultiplierOutOfRange")
        \* the four products are computed before the comparisons
        ELSE IF checks /\ ShlOverflows(U32(freq), 4) THEN Panic("ArithmeticOverflow")
        ELSE LET p == PllPostDivider(freq)
             IN  IF p.ok THEN Ok(<<PllMultiplier(freq, input_freq), p.val>>) ELSE p

----------------------------------------------------------------------------
(* ClocksBuilder *)

\* ClocksBuilder::new
new(system_osc_freq) ==
    [ main_clock_source |-> "IRC_OSCILLATOR",
      system_pll        |-> None,
      system_clock_freq |-> None,
      system_osc_freq   |-> system_osc_freq,
      watchdog_osc_freq |-> None ]

\* validate, the PLL request: Option<<<input_clock, m, p>>>
ValidateSystemPll(self, checks) ==
    IF IsSome(self.system_pll)
    THEN LET input_clock == Unwrapped(self.system_pll)[1]
             freq == Unwrapped(self.system_pll)[2]
         IN  IF input_clock = "CRYSTAL_OSCILLATOR" /\ IsNone(self.system_osc_freq)
             THEN Panic("MissingCrystalFrequency")
             ELSE LET sys_osc == IF input_clock = "CRYSTAL_OSCILLATOR"
                                 THEN self.system_osc_freq ELSE None
                      mp == calculate_m_p(freq, sys_osc, checks)
                  IN  IF mp.ok THEN Ok(Some(<<input_clock, mp.val[1], mp.val[2]>>))
                      ELSE mp
    ELSE Ok(None)

\* validate, the literals of the watchdog if / else-if chain, in order; the
\* k-th comparison selects the k-th band
WdtThresholds ==
    << 600000, 1050000, 1400000, 1750000, 2100000, 2400000, 2700000, 3000000,
       3250000, 3500000, 3750000, 4000000, 4200000, 4400000, 4600000 >>

\* the comparison of one arm of the chain
WdtArmTaken(watchdog_freq, k) == watchdog_freq < WdtThresholds[k]

\* validate, the watchdog oscillator request: Option<<<freqsel, divisor>>>
ValidateWatchdogOsc(watchdog_osc_freq) ==
    IF IsSome(watchdog_osc_freq)
    THEN LET watchdog_freq == Unwrapped(watchdog_osc_freq)
             arms == {k \in 1..Len(WdtThresholds) : WdtArmTaken(watchdog_freq, k)}
         IN  IF arms = {} THEN Panic("FrequencyTooHigh")
             ELSE Ok(Some(<<CHOOSE k \in arms : \A j \in arms : k <= j, 1>>))
    ELSE Ok(None)

\* validate, system_clock_div; `as u8` keeps the low 8 bits
SystemClockDiv(main_clock_freq, system_clock_freq) ==
    IF IsSome(system_clock_freq)
    THEN LET freq == Unwrapped(system_clock_freq)
         IN  IF freq = 0 THEN Panic("DivideByZero")
             ELSE IF main_clock_freq % freq # 0 THEN Panic("NotIntegerDivisible")
             ELSE Ok((main_clock_freq \div freq) % 256)
    ELSE Ok(1)

\* FlashTim with the first two thresholds compared with <= where the source has <
FlashTimInclusive(system_clock_freq) ==
    IF system_clock_freq <= 20000000 THEN Ok("_1_SYSTEM_CLOCK_FLASH")
    ELSE IF system_clock_freq <= 40000000 THEN Ok("_2_SYSTEM_CLOCKS_FLAS")
    ELSE IF system_clock_freq < 50000000 THEN Ok("_3_SYSTEM_CLOCKS_FLAS")
    ELSE Panic("FrequencyExceedsFlashRating")

\* validate, flashtim
FlashTim(system_clock_freq) ==
    IF system_clock_freq < 20000000 THEN Ok("_1_SYSTEM_CLOCK_FLASH")
    ELSE IF system_clock_freq < 40000000 THEN Ok("_2_SYSTEM_CLOCKS_FLAS")
    ELSE IF system_clock_freq < 50000000 THEN Ok("_3_SYSTEM_CLOCKS_FLAS")
    ELSE Panic("FrequencyExceedsFlashRating")

\* ClocksBuilder::validate: a panic, or the descriptor with the local
\* main_clock_freq it was computed from
validate(self, checks) ==
    LET pll == ValidateSystemPll(self, checks)
    IN  IF ~pll.ok THEN pll ELSE
    LET wdt == ValidateWatchdogOsc(self.watchdog_osc_freq)
    IN  IF ~wdt.ok THEN wdt ELSE
    LET main == get_main_clock_freq(self.main_clock_source, pll.val, wdt.val,
                                    self.system_osc_freq)
    IN  IF ~main.ok THEN main ELSE
    LET div == SystemClockDiv(main.val, self.system_clock_freq)
    IN  IF ~div.ok THEN div
        ELSE IF div.val = 0 THEN Panic("DivideByZero") ELSE
    LET flashtim == FlashTim(main.val \div div.val)
    IN  IF ~flashtim.ok THEN flashtim
        ELSE [ ok |-> TRUE,
               main_clock_freq |-> main.val,
               val |-> [ main_clock_source |-> self.main_clock_source,
                         system_osc_freq   |-> self.system_osc_freq,
                         system_pll_m_p    |-> pll.val,
                         system_clock_div  |-> div.val,
                         watchdog_osc      |-> wdt.val,
                         flashtim          |-> flashtim.val ] ]

----------------------------------------------------------------------------
(* Inputs *)

\* crystal frequencies given to ClocksBuilder::new
OscFreqs == {0, 16000000, 40000000}

\* PLL target frequencies given to system_pll: the multiples of 12 MHz up to
\* MaxPllMultiple, and targets for a crystal, out of range, or beyond 32 bits
\* once multiplied
MaxPllMultiple == 8

PllFreqs == {k * 12000000 : k \in 0..MaxPllMultiple}
                \cup {80000000, 168000000, 396000000, 1120000000}

\* system clock targets given to system_clock
SystemClockFreqs == {0, 40000, 46875, 10000000, 12000000, 20000000}

\* watchdog oscillator targets given to watchdog_oscillator
WatchdogFreqs == {500000, 600000, 1000000, 1050000, 4500000, 4600000, 4700000}

\* the register block handed to build: which oscillators and PLLs run on entry.
\* The USB PLL, the USART clock and the fields owned by the interrupt handler
\* (the ADC power bit, the CT16B0 clock gate) hold their reset values.
SysconOnEntry ==
    { [ pdruncfg      |-> [irc |-> TRUE, ircout |-> TRUE, sysosc |-> FALSE,
                           syspll |-> pll_on, wdtosc |-> wdt_on,
                           usbpll |-> FALSE, adc |-> FALSE],
        syspllclksel  |-> "IRC",
        syspllclkuen  |-> "NO_CHANGE",
        syspllctrl    |-> <<0, 0>>,
        syspllstat    |-> pll_on,
        wdtoscctrl    |-> <<0, 0>>,
        mainclksel    |-> "IRC_OSCILLATOR",
        mainclkuen    |-> "NO_CHANGE",
        sysahbclkdiv  |-> 1,
        flashcfg      |-> "_3_SYSTEM_CLOCKS_FLAS",
        sysahbclkctrl |-> [iocon |-> FALSE, usart |-> FALSE, ct16b0 |-> FALSE],
        uartclkdiv    |-> 0,
        usbpllclksel  |-> "IRC",
        usbpllclkuen  |-> "NO_CHANGE",
        usbpllctrl    |-> <<0, 0>>,
        usbpllstat    |-> FALSE ] : pll_on \in BOOLEAN, wdt_on \in BOOLEAN }

----------------------------------------------------------------------------
(* State machine *)

InitProgram ==
    /\ overflow_checks \in BOOLEAN
    /\ \E system_osc_freq \in {None} \cup {Some(f) : f \in OscFreqs} :
           builder = new(system_osc_freq)
    /\ pc = "builder"
    /\ validation = None
    /\ descriptor = None
    /\ hw = None
    /\ settle_i = 0
    /\ trace = << >>
    /\ clocks = None
    /\ primask = FALSE
    /\ rmw = None
    /\ call = None
    /\ isr = [sysahbclkctrl |-> FALSE, pdruncfg |-> FALSE]

Init ==
    /\ InitProgram
    /\ mul = None

BuilderUnchanged == UNCHANGED <<overflow_checks, pc, validation, descriptor, hw,
                                settle_i, trace, clocks, mul, capability>>

\* ClocksBuilder::system_pll
system_pll(pll_input, freq) ==
    /\ pc = "builder"
    /\ builder' = [builder EXCEPT !.system_pll = Some(<<pll_input, freq>>)]
    /\ BuilderUnchanged

\* ClocksBuilder::system_clock
system_clock(freq) ==
    /\ pc = "builder"
    /\ builder' = [builder EXCEPT !.system_clock_freq = Some(freq)]
    /\ BuilderUnchanged

\* ClocksBuilder::watchdog_oscillator
watchdog_oscillator(freq) ==
    /\ pc = "builder"
    /\ builder' = [builder EXCEPT !.watchdog_osc_freq = Some(freq)]
    /\ BuilderUnchanged

\* ClocksBuilder::main_clock
main_clock(main_clock_source) ==
    /\ pc = "builder"
    /\ builder' = [builder EXCEPT !.main_clock_source = main_clock_source]
    /\ BuilderUnchanged

\* ClocksBuilder::validate, called on the request built so far
Validate ==
    /\ pc = "builder"
    /\ validation' = validate(builder, overflow_checks)
    /\ pc' = IF validation'.ok THEN "validated" ELSE "panicked"
    /\ descriptor' = IF validation'.ok THEN validation'.val ELSE None
    /\ UNCHANGED <<overflow_checks, builder, hw, settle_i, trace, clocks, mul, capability>>

----------------------------------------------------------------------------
(* ClocksDescriptor::build, one step per register access *)

\* iterations of the crystal settle loop: it leaves once cur_i >= 0x100
SETTLE_LIMIT == 256

\* a register access as recorded in trace
Write(reg, val) == [reg |-> reg, val |-> val]

\* pdruncfg.modify: read, change the named power bits, write back
PdruncfgModify(regs, bits, powered) ==
    [regs EXCEPT !.pdruncfg = [b \in DOMAIN regs.pdruncfg |->
                                 IF b \in bits THEN powered ELSE regs.pdruncfg[b]]]

\* the hardware drops the PLL lock when the PLL loses power or its dividers change
DropLock(regs) == [regs EXCEPT !.syspllstat = FALSE]

BuildUnchanged == UNCHANGED <<overflow_checks, builder, validation, descriptor, clocks, mul,
                              capability>>

\* build is called with the register block as the hardware left it; the
\* request was consumed by validate and is gone
BuildEnter ==
    /\ pc = "validated"
    /\ \E syscon \in SysconOnEntry : hw' = syscon
    /\ pc' = "build_pll_input_power"
    /\ builder' = None
    /\ UNCHANGED <<overflow_checks, validation, descriptor, clocks, settle_i, trace, mul,
                   capability>>

\* if let Some((pll_input, m, p)): power the PLL input
BuildPllInputPower ==
    /\ pc = "build_pll_input_power"
    /\ IF IsNone(descriptor.system_pll_m_p)
       THEN /\ pc' = "build_main_source_power"
            /\ UNCHANGED <<hw, trace>>
       ELSE IF Unwrapped(descriptor.system_pll_m_p)[1] = "IRC"
       THEN /\ hw' = PdruncfgModify(hw, {"ircout", "irc"}, TRUE)
            /\ trace' = Append(trace, Write("pdruncfg", <<{"ircout", "irc"}, TRUE>>))
            /\ pc' = "build_syspllclksel"
       ELSE /\ hw' = PdruncfgModify(hw, {"sysosc"}, TRUE)
            /\ trace' = Append(trace, Write("pdruncfg", <<{"sysosc"}, TRUE>>))
            /\ pc' = "build_settle"
    /\ settle_i' = 0
    /\ BuildUnchanged

\* one iteration of the settle loop
BuildSettle ==
    /\ pc = "build_settle"
    /\ settle_i' = settle_i + 1
    /\ pc' = IF settle_i >= SETTLE_LIMIT THEN "build_syspllclksel" ELSE "build_settle"
    /\ UNCHANGED <<hw, trace>>
    /\ BuildUnchanged

BuildSyspllclksel ==
    /\ pc = "build_syspllclksel"
    /\ hw' = [hw EXCEPT !.syspllclksel = Unwrapped(descriptor.system_pll_m_p)[1]]
    /\ trace' = Append(trace, Write("syspllclksel", Unwrapped(descriptor.system_pll_m_p)[1]))
    /\ pc' = "build_syspllclkuen_no_change"
    /\ UNCHANGED settle_i
    /\ BuildUnchanged

BuildSyspllclkuenNoChange ==
    /\ pc = "build_syspllclkuen_no_change"
    /\ hw' = [hw EXCEPT !.syspllclkuen = "NO_CHANGE"]
    /\ trace' = Append(trace, Write("syspllclkuen", "NO_CHANGE"))
    /\ pc' = "build_syspllclkuen_update"
    /\ UNCHANGED settle_i
    /\ BuildUnchanged

BuildSyspllclkuenUpdate ==
    /\ pc = "build_syspllclkuen_update"
    /\ hw' = [hw EXCEPT !.syspllclkuen = "UPDATE_CLOCK_SOURCE"]
    /\ trace' = Append(trace, Write("syspllclkuen", "UPDATE_CLOCK_SOURCE"))
    /\ pc' = "build_syspll_power_down"
    /\ UNCHANGED settle_i
    /\ BuildUnchanged

\* build going on to the divider ratio with the PLL left as it was
BuildSyspllPowerDownSkipped ==
    /\ pc = "build_syspll_power_down"
    /\ pc' = "build_syspllctrl"
    /\ UNCHANGED <<hw, trace, settle_i>>
    /\ BuildUnchanged

\* Power down PLL to change the PLL divider ratio
BuildSyspllPowerDown ==
    /\ pc = "build_syspll_power_down"
    /\ hw' = DropLock(PdruncfgModify(hw, {"syspll"}, FALSE))
    /\ trace' = Append(trace, Write("pdruncfg", <<{"syspll"}, FALSE>>))
    /\ pc' = "build_syspllctrl"
    /\ UNCHANGED settle_i
    /\ BuildUnchanged

\* Change divider ratio
BuildSyspllctrl ==
    /\ pc = "build_syspllctrl"
    /\ hw' = DropLock([hw EXCEPT !.syspllctrl = <<Unwrapped(descriptor.system_pll_m_p)[2],
                                                  Unwrapped(descriptor.system_pll_m_p)[3]>>])
    /\ trace' = Append(trace, Write("syspllctrl",
                                      <<Unwrapped(descriptor.system_pll_m_p)[2],
                                        Unwrapped(descriptor.system_pll_m_p)[3]>>))
    /\ pc' = "build_syspll_power_up"
    /\ UNCHANGED settle_i
    /\ BuildUnchanged

\* Power PLL back up
BuildSyspllPowerUp ==
    /\ pc = "build_syspll_power_up"
    /\ hw' = PdruncfgModify(hw, {"syspll"}, TRUE)
    /\ trace' = Append(trace, Write("pdruncfg", <<{"syspll"}, TRUE>>))
    /\ pc' = "build_wait_lock"
    /\ UNCHANGED settle_i
    /\ BuildUnchanged

\* build going on to the main clock without reading the lock bit
BuildWaitLockSkipped ==
    /\ pc = "build_wait_lock"
    /\ pc' = "build_main_source_power"
    /\ UNCHANGED <<hw, settle_i, trace>>
    /\ BuildUnchanged

\* while syspllstat.read().lock().is_pll_not_locked() {}: one read of the loop
BuildWaitLock ==
    /\ pc = "build_wait_lock"
    /\ pc' = IF hw.syspllstat THEN "build_main_source_power" ELSE "build_wait_lock"
    /\ trace' = IF hw.syspllstat THEN Append(trace, Write("syspllstat", "PLL_LOCKED"))
                 ELSE trace
    /\ UNCHANGED <<hw, settle_i>>
    /\ BuildUnchanged

\* the hardware: a powered PLL reaches lock
PllLocks ==
    /\ pc \notin {"builder", "validated", "panicked"}
    /\ hw.pdruncfg.syspll
    /\ ~hw.syspllstat
    /\ hw' = [hw EXCEPT !.syspllstat = TRUE]
    /\ UNCHANGED <<pc, settle_i, trace>>
    /\ BuildUnchanged

\* match self.main_clock_source: only the IRC arm touches the hardware
BuildMainSourcePower ==
    /\ pc = "build_main_source_power"
    /\ IF descriptor.main_clock_source = "IRC_OSCILLATOR"
       THEN /\ hw' = PdruncfgModify(hw, {"ircout", "irc"}, TRUE)
            /\ trace' = Append(trace, Write("pdruncfg", <<{"ircout", "irc"}, TRUE>>))
       ELSE UNCHANGED <<hw, trace>>
    /\ pc' = "build_sysahbclkdiv"
    /\ UNCHANGED settle_i
    /\ BuildUnchanged

BuildSysahbclkdiv ==
    /\ pc = "build_sysahbclkdiv"
    /\ hw' = [hw EXCEPT !.sysahbclkdiv = descriptor.system_clock_div]
    /\ trace' = Append(trace, Write("sysahbclkdiv", descriptor.system_clock_div))
    /\ pc' = "build_flashcfg"
    /\ UNCHANGED settle_i
    /\ BuildUnchanged

BuildFlashcfg ==
    /\ pc = "build_flashcfg"
    /\ hw' = [hw EXCEPT !.flashcfg = descriptor.flashtim]
    /\ trace' = Append(trace, Write("flashcfg", descriptor.flashtim))
    /\ pc' = "build_mainclksel"
    /\ UNCHANGED settle_i
    /\ BuildUnchanged

\* Set main clock source
BuildMainclksel ==
    /\ pc = "build_mainclksel"
    /\ hw' = [hw EXCEPT !.mainclksel = descriptor.main_clock_source]
    /\ trace' = Append(trace, Write("mainclksel", descriptor.main_clock_source))
    /\ pc' = "build_mainclkuen_no_change"
    /\ UNCHANGED settle_i
    /\ BuildUnchanged

BuildMainclkuenNoChange ==
    /\ pc = "build_mainclkuen_no_change"
    /\ hw' = [hw EXCEPT !.mainclkuen = "NO_CHANGE"]
    /\ trace' = Append(trace, Write("mainclkuen", "NO_CHANGE"))
    /\ pc' = "build_mainclkuen_update"
    /\ UNCHANGED settle_i
    /\ BuildUnchanged

BuildMainclkuenUpdate ==
    /\ pc = "build_mainclkuen_update"
    /\ hw' = [hw EXCEPT !.mainclkuen = "UPDATE_CLOCK_SOURCE"]
    /\ trace' = Append(trace, Write("mainclkuen", "UPDATE_CLOCK_SOURCE"))
    /\ pc' = "build_iocon"
    /\ UNCHANGED settle_i
    /\ BuildUnchanged

\* Enable IOCON
BuildIocon ==
    /\ pc = "build_iocon"
    /\ hw' = [hw EXCEPT !.sysahbclkctrl.iocon = TRUE]
    /\ trace' = Append(trace, Write("sysahbclkctrl", <<"iocon", TRUE>>))
    /\ pc' = "build_return"
    /\ UNCHANGED settle_i
    /\ BuildUnchanged

\* the frequency build stores in the Clocks handle
BuildMainClockFreq(self) ==
    get_main_clock_freq(self.main_clock_source, self.system_pll_m_p,
                        self.watchdog_osc, self.system_osc_freq)

\* compute main_clock_freq and return (Clocks, PeriphClocks)
BuildReturn ==
    /\ pc = "build_return"
    /\ IF BuildMainClockFreq(descriptor).ok
       THEN /\ clocks' = Some([system_osc_freq |-> descriptor.system_osc_freq,
                               main_clock_freq |-> BuildMainClockFreq(descriptor).val])
            /\ pc' = "frozen"
       ELSE /\ clocks' = None
            /\ pc' = "panicked"
    /\ UNCHANGED <<overflow_checks, builder, validation, descriptor, hw, settle_i, trace, mul,
                   capability>>

Build ==
    \/ BuildEnter
    \/ BuildPllInputPower
    \/ BuildSettle
    \/ BuildSyspllclksel
    \/ BuildSyspllclkuenNoChange
    \/ BuildSyspllclkuenUpdate
    \/ BuildSyspllPowerDown
    \/ BuildSyspllctrl
    \/ BuildSyspllPowerUp
    \/ BuildWaitLock
    \/ BuildMainSourcePower
    \/ BuildSysahbclkdiv
    \/ BuildFlashcfg
    \/ BuildMainclksel
    \/ BuildMainclkuenNoChange
    \/ BuildMainclkuenUpdate
    \/ BuildIocon
    \/ BuildReturn

Next ==
    \/ \E pll_input \in SysPllClkSel, freq \in PllFreqs : system_pll(pll_input, freq)
    \/ \E freq \in SystemClockFreqs : system_clock(freq)
    \/ \E freq \in WatchdogFreqs : watchdog_oscillator(freq)
    \/ \E main_clock_source \in MainClkSel : main_clock(main_clock_source)
    \/ Validate
    \/ Build
    \/ PllLocks

Spec == Init /\ [][Next]_vars

\* requests that choose the PLL and the main clock source, with the default
\* divider and no watchdog oscillator
NextFair ==
    \/ \E pll_input \in SysPllClkSel, freq \in PllFreqs : system_pll(pll_input, freq)
    \/ \E main_clock_source \in MainClkSel : main_clock(main_clock_source)
    \/ Validate
    \/ Build
    \/ PllLocks

\* the processor keeps executing build; nothing obliges the PLL to lock
SpecFair == Init /\ [][NextFair]_vars /\ WF_vars(Build)

----------------------------------------------------------------------------
(* Hertz * u32 on its own: operands drawn from bounded sets *)

MulFreqs == {0, 1, 2, 600000, 1000000, 12000000, 16000000, 48000000}
MulFactors == {0, 1, 2, 3, 4, 8, 16, 32}

InitMul ==
    /\ InitProgram
    /\ \E f \in MulFreqs, k \in MulFactors : mul = [self |-> f, rhs |-> k, out |-> None]

\* impl Mul<u32> for Hertz: self * rhs
HertzMulCall ==
    /\ IsNone(mul.out)
    /\ mul' = [mul EXCEPT !.out = Some(HertzMul(mul.self, mul.rhs))]
    /\ UNCHANGED <<overflow_checks, builder, pc, validation, descriptor, hw, settle_i,
                   trace, clocks, capability>>

NextMul == HertzMulCall

SpecMul == InitMul /\ [][NextMul]_vars

----------------------------------------------------------------------------
(* Peripheral clock operations on the tokens build returns, one step per   *)
(* register access, and an interrupt handler that may run between them     *)

\* target frequencies given to USARTClock::configure and USBClock::configure
UsartFreqs == {0, 1000000, 12000000}
UsbFreqs == {48000000, 80000000}

\* the positions of the main program once build has returned
CapabilityPositions ==
    { "frozen",
      "usart_configure_modify", "usart_configure_uartclkdiv",
      "usart_disable_read", "usart_disable_modify",
      "usb_usbpllclksel", "usb_usbpllclkuen_no_change", "usb_usbpllclkuen_update",
      "usb_usbpllctrl", "usb_power_up_read", "usb_power_up_modify", "usb_wait_lock",
      "enable_gpio_modify" }

CapabilityUnchanged == UNCHANGED <<overflow_checks, builder, validation, descriptor,
                                   settle_i, trace, clocks, mul>>

\* cortex_m::interrupt::free around the modify of USARTClock::disable,
\* USBClock::configure and Syscon::enable_gpio only
MasksInterruptsExceptUsartConfigure(op) ==
    op \in {"USARTClock::disable", "USBClock::configure", "Syscon::enable_gpio"}

\* cortex_m::interrupt::free: the operations that run their modify inside it
MasksInterrupts(op) ==
    op \in {"USARTClock::configure", "USARTClock::disable", "USBClock::configure",
            "Syscon::enable_gpio"}

\* let div = (clocks.main_clock_freq().0 / freq.0) as u8
UartClkDiv(main_clock_freq, freq) == (main_clock_freq \div freq) % 256

\* USARTClock::configure: compute div, enter interrupt::free, read sysahbclkctrl
USARTClock_configure(freq) ==
    /\ pc = "frozen"
    /\ IF freq = 0
       THEN /\ pc' = "panicked"
            /\ UNCHANGED <<primask, rmw, call>>
       ELSE /\ call' = Some(UartClkDiv(Unwrapped(clocks).main_clock_freq, freq))
            /\ primask' = MasksInterrupts("USARTClock::configure")
            /\ rmw' = Some(hw.sysahbclkctrl)
            /\ pc' = "usart_configure_modify"
    /\ UNCHANGED <<hw, isr>>
    /\ CapabilityUnchanged

\* sysahbclkctrl.modify(|_, w| w.usart().enabled()): write back, leave interrupt::free
UsartConfigureModify ==
    /\ pc = "usart_configure_modify"
    /\ hw' = [hw EXCEPT !.sysahbclkctrl = [Unwrapped(rmw) EXCEPT !.usart = TRUE]]
    /\ rmw' = None
    /\ primask' = FALSE
    /\ pc' = "usart_configure_uartclkdiv"
    /\ UNCHANGED <<call, isr>>
    /\ CapabilityUnchanged

\* uartclkdiv.write(|v| v.div().bits(div))
UsartConfigureUartclkdiv ==
    /\ pc = "usart_configure_uartclkdiv"
    /\ hw' = [hw EXCEPT !.uartclkdiv = Unwrapped(call)]
    /\ call' = None
    /\ pc' = "frozen"
    /\ UNCHANGED <<primask, rmw, isr>>
    /\ CapabilityUnchanged

\* USARTClock::disable: enter interrupt::free, uartclkdiv.write(|w| w.div().bits(0))
USARTClock_disable ==
    /\ pc = "frozen"
    /\ primask' = MasksInterrupts("USARTClock::disable")
    /\ hw' = [hw EXCEPT !.uartclkdiv = 0]
    /\ pc' = "usart_disable_read"
    /\ UNCHANGED <<rmw, call, isr>>
    /\ CapabilityUnchanged

\* sysahbclkctrl.modify(|_, w| w.usart().disabled()): the read
UsartDisableRead ==
    /\ pc = "usart_disable_read"
    /\ rmw' = Some(hw.sysahbclkctrl)
    /\ pc' = "usart_disable_modify"
    /\ UNCHANGED <<hw, primask, call, isr>>
    /\ CapabilityUnchanged

\* ... the write back; leave interrupt::free
UsartDisableModify ==
    /\ pc = "usart_disable_modify"
    /\ hw' = [hw EXCEPT !.sysahbclkctrl = [Unwrapped(rmw) EXCEPT !.usart = FALSE]]
    /\ rmw' = None
    /\ primask' = FALSE
    /\ pc' = "frozen"
    /\ UNCHANGED <<call, isr>>
    /\ CapabilityUnchanged

\* USBClock::configure: let (m, p) = calculate_m_p(..); let pll_input = ..
USBClock_configure(freq) ==
    /\ pc = "frozen"
    /\ LET mp == calculate_m_p(freq, Unwrapped(clocks).system_osc_freq, overflow_checks)
       IN  IF mp.ok
           THEN /\ call' = Some([m |-> mp.val[1], p |-> mp.val[2],
                                 pll_input |-> IF IsNone(Unwrapped(clocks).system_osc_freq)
                                               THEN "IRC" ELSE "SYSTEM_OSCILLATOR"])
                /\ pc' = "usb_usbpllclksel"
           ELSE /\ call' = None
                /\ pc' = "panicked"
    /\ UNCHANGED <<hw, primask, rmw, isr>>
    /\ CapabilityUnchanged

\* usbpllclksel.write(|v| v.sel().variant(pll_input))
UsbUsbpllclksel ==
    /\ pc = "usb_usbpllclksel"
    /\ hw' = [hw EXCEPT !.usbpllclksel = Unwrapped(call).pll_input]
    /\ pc' = "usb_usbpllclkuen_no_change"
    /\ UNCHANGED <<primask, rmw, call, isr>>
    /\ CapabilityUnchanged

\* usbpllclkuen.write(|v| v.ena().no_change())
UsbUsbpllclkuenNoChange ==
    /\ pc = "usb_usbpllclkuen_no_change"
    /\ hw' = [hw EXCEPT !.usbpllclkuen = "NO_CHANGE"]
    /\ pc' = "usb_usbpllclkuen_update"
    /\ UNCHANGED <<primask, rmw, call, isr>>
    /\ CapabilityUnchanged

\* usbpllclkuen.write(|v| v.ena().update_clock_source())
UsbUsbpllclkuenUpdate ==
    /\ pc = "usb_usbpllclkuen_update"
    /\ hw' = [hw EXCEPT !.usbpllclkuen = "UPDATE_CLOCK_SOURCE"]
    /\ pc' = "usb_usbpllctrl"
    /\ UNCHANGED <<primask, rmw, call, isr>>
    /\ CapabilityUnchanged

\* Change divider ratio; the hardware drops the lock when the dividers change
UsbUsbpllctrl ==
    /\ pc = "usb_usbpllctrl"
    /\ hw' = [hw EXCEPT !.usbpllctrl = <<Unwrapped(call).m, Unwrapped(call).p>>,
                        !.usbpllstat = FALSE]
    /\ pc' = "usb_power_up_read"
    /\ UNCHANGED <<primask, rmw, call, isr>>
    /\ CapabilityUnchanged

\* Power PLL up: enter interrupt::free, pdruncfg.modify: the read
UsbPowerUpRead ==
    /\ pc = "usb_power_up_read"
    /\ primask' = MasksInterrupts("USBClock::configure")
    /\ rmw' = Some(hw.pdruncfg)
    /\ pc' = "usb_power_up_modify"
    /\ UNCHANGED <<hw, call, isr>>
    /\ CapabilityUnchanged

\* pdruncfg.modify(|_, v| v.usbpll_pd().powered()): write back, leave interrupt::free
UsbPowerUpModify ==
    /\ pc = "usb_power_up_modify"
    /\ hw' = [hw EXCEPT !.pdruncfg = [Unwrapped(rmw) EXCEPT !.usbpll = TRUE]]
    /\ rmw' = None
    /\ primask' = FALSE
    /\ pc' = "usb_wait_lock"
    /\ UNCHANGED <<call, isr>>
    /\ CapabilityUnchanged

\* while usbpllstat.read().lock().is_pll_not_locked() {}: one read of the loop
UsbWaitLock ==
    /\ pc = "usb_wait_lock"
    /\ pc' = IF hw.usbpllstat THEN "frozen" ELSE "usb_wait_lock"
    /\ call' = IF hw.usbpllstat THEN None ELSE call
    /\ UNCHANGED <<hw, primask, rmw, isr>>
    /\ CapabilityUnchanged

\* the hardware: a powered USB PLL reaches lock
UsbPllLocks ==
    /\ pc \in CapabilityPositions
    /\ hw.pdruncfg.usbpll
    /\ ~hw.usbpllstat
    /\ hw' = [hw EXCEPT !.usbpllstat = TRUE]
    /\ UNCHANGED <<pc, primask, rmw, call, isr>>
    /\ CapabilityUnchanged

\* Syscon::enable_gpio: enter interrupt::free, sysahbclkctrl.modify: the read
Syscon_enable_gpio ==
    /\ pc = "frozen"
    /\ primask' = MasksInterrupts("Syscon::enable_gpio")
    /\ rmw' = Some(hw.sysahbclkctrl)
    /\ pc' = "enable_gpio_modify"
    /\ UNCHANGED <<hw, call, isr>>
    /\ CapabilityUnchanged

\* sysahbclkctrl.modify(|_, w| w.usart().disabled()): write back, leave interrupt::free
EnableGpioModify ==
    /\ pc = "enable_gpio_modify"
    /\ hw' = [hw EXCEPT !.sysahbclkctrl = [Unwrapped(rmw) EXCEPT !.usart = FALSE]]
    /\ rmw' = None
    /\ primask' = FALSE
    /\ pc' = "frozen"
    /\ UNCHANGED <<call, isr>>
    /\ CapabilityUnchanged

\* the field of each shared register that the interrupt handler owns
HandlerField(reg) == IF reg = "sysahbclkctrl" THEN "ct16b0" ELSE "adc"

\* an interrupt handler, taken between two steps of the main program unless
\* interrupts are masked: it runs to completion and flips its own field of
\* reg with a read-modify-write
Interrupt(reg) ==
    /\ pc \in CapabilityPositions
    /\ ~primask
    /\ hw' = [hw EXCEPT ![reg][HandlerField(reg)] = ~hw[reg][HandlerField(reg)]]
    /\ isr' = [isr EXCEPT ![reg] = ~hw[reg][HandlerField(reg)]]
    /\ UNCHANGED <<pc, primask, rmw, call>>
    /\ CapabilityUnchanged

Capability ==
    \/ \E freq \in UsartFreqs : USARTClock_configure(freq)
    \/ UsartConfigureModify
    \/ UsartConfigureUartclkdiv
    \/ USARTClock_disable
    \/ UsartDisableRead
    \/ UsartDisableModify
    \/ \E freq \in UsbFreqs : USBClock_configure(freq)
    \/ UsbUsbpllclksel
    \/ UsbUsbpllclkuenNoChange
    \/ UsbUsbpllclkuenUpdate
    \/ UsbUsbpllctrl
    \/ UsbPowerUpRead
    \/ UsbPowerUpModify
    \/ UsbWaitLock
    \/ Syscon_enable_gpio
    \/ EnableGpioModify

\* a program that requests at most a 48 MHz system PLL, builds, and then uses
\* the peripheral clock tokens with interrupts enabled
NextCapability ==
    \/ \E pll_input \in SysPllClkSel : system_pll(pll_input, 48000000)
    \/ Validate
    \/ Build
    \/ PllLocks
    \/ Capability
    \/ UsbPllLocks
    \/ \E reg \in {"sysahbclkctrl", "pdruncfg"} : Interrupt(reg)

SpecCapability == Init /\ [][NextCapability]_vars

----------------------------------------------------------------------------
(* Properties *)

Validated == pc = "validated"
ValidateReturned == pc \in {"validated", "panicked"} /\ validation # None
ValidatePanicked == pc = "panicked" /\ validation # None /\ ~validation.ok

\* the PLL request of the builder
PllRequested == IsSome(builder.system_pll)
PllInputSel == Unwrapped(builder.system_pll)[1]
PllTarget == Unwrapped(builder.system_pll)[2]

\* the input frequency the PLL request resolves to; only meaningful when
\* the crystal frequency is known or not needed
PllInputFreq ==
    IF PllInputSel = "CRYSTAL_OSCILLATOR" THEN Unwrapped(builder.system_osc_freq)
    ELSE 12000000

\* 156_000_000 <= 2 * 2^P * f_out < 320_000_000 over the integers; both
\* limits are multiples of 16, so the division is exact
ComparatorInRange(f_out, P) ==
    /\ f_out >= 156000000 \div 2^(P + 1)
    /\ f_out < 320000000 \div 2^(P + 1)

\* C1: a plan holding PLL parameters has a post-divider exponent P whose true
\* comparator frequency 2 * 2^P * f_out lies in [156 MHz, 320 MHz), and P is
\* the smallest exponent of 0..3 with that property.
C1_ComparatorFrequencyInRange ==
    (Validated /\ IsSome(descriptor.system_pll_m_p)) =>
        LET P == Unwrapped(descriptor.system_pll_m_p)[3]
        IN  /\ P \in 0..3
            /\ ComparatorInRange(PllTarget, P)
            /\ \A q \in 0..(P - 1) : ~ComparatorInRange(PllTarget, q)

\* C2: with a system-clock target, validation succeeds only if the main
\* clock is an exact multiple of it and the stored divider times the target
\* is the main clock; without a target the divider is 1.
C2_DividerExact ==
    Validated =>
        IF IsSome(builder.system_clock_freq)
        THEN /\ validation.main_clock_freq % Unwrapped(builder.system_clock_freq) = 0
             /\ descriptor.system_clock_div * Unwrapped(builder.system_clock_freq)
                    = validation.main_clock_freq
        ELSE descriptor.system_clock_div = 1

\* the 15 nominal band frequencies, 600 kHz ... 4.6 MHz
BandFreq(band) == WDT_OSC_RATE[band + 1]

\* C3: a requested watchdog frequency selects the smallest band whose nominal
\* frequency is at least the request, with divisor 1.
C3_SmallestBandAtLeastRequest ==
    (Validated /\ IsSome(builder.watchdog_osc_freq)) =>
        LET r == Unwrapped(builder.watchdog_osc_freq)
            band == Unwrapped(descriptor.watchdog_osc)[1]
        IN  /\ band \in FREQSEL_A
            /\ BandFreq(band) >= r
            /\ \A b \in FREQSEL_A : BandFreq(b) >= r => band <= b
            /\ Unwrapped(descriptor.watchdog_osc)[2] = 1

\* C4: validate fails with the watchdog 'frequency too high' error only for
\* requests above 4,600,000 Hz, and no request above 4,600,000 Hz is accepted.
C4_TooHighOnlyAboveTopBand ==
    /\ (ValidatePanicked /\ validation.err = "FrequencyTooHigh") =>
           Unwrapped(builder.watchdog_osc_freq) > 4600000
    /\ (Validated /\ IsSome(builder.watchdog_osc_freq)) =>
           Unwrapped(builder.watchdog_osc_freq) <= 4600000

WatchdogSourceUnconfigured ==
    /\ ValidateReturned
    /\ builder.main_clock_source = "WATCHDOG_OSCILLATOR"
    /\ IsNone(builder.watchdog_osc_freq)

PllSourceUnconfigured ==
    /\ ValidateReturned
    /\ builder.main_clock_source \in {"PLL_INPUT", "PLL_OUTPUT"}
    /\ IsNone(builder.system_pll)

PllRequestErrors ==
    {"MissingCrystalFrequency", "NotIntegerMultiple", "MultiplierOutOfRange",
     "NoValidPostDivider", "DivideByZero", "ArithmeticOverflow"}

\* a PLL request that is valid over the integers
PllRequestValid ==
    /\ PllInputSel = "CRYSTAL_OSCILLATOR" => IsSome(builder.system_osc_freq)
    /\ PllInputFreq > 0
    /\ PllTarget % PllInputFreq = 0
    /\ (PllTarget \div PllInputFreq) \in 1..32
    /\ \E P \in 0..3 : ComparatorInRange(PllTarget, P)

C6_FlashWaitStates ==
    Validated =>
        LET s == validation.main_clock_freq \div descriptor.system_clock_div
        IN  \/ s < 20000000 /\ descriptor.flashtim = "_1_SYSTEM_CLOCK_FLASH"
            \/ 20000000 <= s /\ s < 40000000
                 /\ descriptor.flashtim = "_2_SYSTEM_CLOCKS_FLAS"
            \/ 40000000 <= s /\ s < 50000000
                 /\ descriptor.flashtim = "_3_SYSTEM_CLOCKS_FLAS"

\* C6 witness: a plan whose system clock is exactly 20 MHz, on 2 cycles
C6_Witness ==
    /\ Validated
    /\ validation.main_clock_freq = 40000000
    /\ descriptor.system_clock_div = 2
    /\ descriptor.flashtim = "_2_SYSTEM_CLOCKS_FLAS"

\* C7: a PLL request fails without a crystal frequency when it needs one, when
\* the target is no multiple of the input, and when target / input - 1 is 32
\* or more; a plan holds M = target / input - 1, within 0..31.
C7_Multiplier ==
    (ValidateReturned /\ PllRequested) =>
        IF PllInputSel = "CRYSTAL_OSCILLATOR" /\ IsNone(builder.system_osc_freq)
        THEN ValidatePanicked /\ validation.err = "MissingCrystalFrequency"
        ELSE /\ (PllInputFreq > 0 /\ PllTarget % PllInputFreq # 0) =>
                    ValidatePanicked /\ validation.err = "NotIntegerMultiple"
             /\ (PllInputFreq > 0 /\ PllTarget % PllInputFreq = 0
                   /\ (PllTarget \div PllInputFreq) - 1 >= 32) =>
                    ValidatePanicked /\ validation.err = "MultiplierOutOfRange"
             /\ Validated =>
                    /\ PllInputFreq > 0
                    /\ Unwrapped(descriptor.system_pll_m_p)[1] = PllInputSel
                    /\ Unwrapped(descriptor.system_pll_m_p)[2]
                           = (PllTarget \div PllInputFreq) - 1
                    /\ Unwrapped(descriptor.system_pll_m_p)[2] \in 0..31
             /\ (Validated /\ PllInputSel = "IRC" /\ PllTarget = 48000000) =>
                    descriptor.system_pll_m_p = Some(<<"IRC", 3, 1>>)

\* C7 witness: 48 MHz from the 12 MHz internal oscillator gives M = 3, P = 1
C7_Witness ==
    /\ Validated
    /\ builder.system_pll = Some(<<"IRC", 48000000>>)
    /\ descriptor.system_pll_m_p = Some(<<"IRC", 3, 1>>)

\* the case table of the main-clock resolver, over the plan
TableMainClock(plan) ==
    CASE plan.main_clock_source = "IRC_OSCILLATOR" -> 12000000
      [] plan.main_clock_source = "PLL_INPUT" ->
            IF Unwrapped(plan.system_pll_m_p)[1] = "IRC" THEN 12000000
            ELSE Unwrapped(plan.system_osc_freq)
      [] plan.main_clock_source = "PLL_OUTPUT" ->
            (IF Unwrapped(plan.system_pll_m_p)[1] = "IRC" THEN 12000000
             ELSE Unwrapped(plan.system_osc_freq))
                * (Unwrapped(plan.system_pll_m_p)[2] + 1)
      [] plan.main_clock_source = "WATCHDOG_OSCILLATOR" ->
            BandFreq(Unwrapped(plan.watchdog_osc)[1])
                \div (2 * (1 + Unwrapped(plan.watchdog_osc)[2]))

\* C8: the frequency validate resolves agrees with the case table; with source
\* PLLOutput it is the requested PLL target; and the frequency of the Clocks
\* handle is the frequency validate resolved.
C8_ResolverAgrees ==
    /\ Validated => validation.main_clock_freq = TableMainClock(descriptor)
    /\ (Validated /\ descriptor.main_clock_source = "PLL_OUTPUT") =>
           validation.main_clock_freq = PllTarget
    /\ pc = "frozen" =>
           /\ IsSome(clocks)
           /\ Unwrapped(clocks).main_clock_freq = validation.main_clock_freq
           /\ Unwrapped(clocks).main_clock_freq = TableMainClock(descriptor)

\* C8 witness: a built plan running from the PLL output of a 16 MHz crystal
C8_Witness ==
    /\ pc = "frozen"
    /\ descriptor.main_clock_source = "PLL_OUTPUT"
    /\ descriptor.system_pll_m_p = Some(<<"CRYSTAL_OSCILLATOR", 2, 1>>)
    /\ Unwrapped(clocks).main_clock_freq = 48000000

\* C9: Hertz(f) * k is Hertz(f * k).
C9_MulScales ==
    (mul # None /\ IsSome(mul.out)) => Unwrapped(mul.out) = mul.self * mul.rhs

\* a pdruncfg write before the i-th access of trace powered up the domain
PoweredUpBefore(domain, i) ==
    \E j \in 1..(i - 1) :
        /\ trace[j].reg = "pdruncfg"
        /\ domain \in trace[j].val[1]
        /\ trace[j].val[2]

\* register reg was accessed before the i-th access of trace
AccessedBefore(reg, i) == \E j \in 1..(i - 1) : trace[j].reg = reg

\* the power domain a clock source runs from
SourceDomain(source, pll_input) ==
    CASE source = "IRC_OSCILLATOR" -> "irc"
      [] source = "WATCHDOG_OSCILLATOR" -> "wdtosc"
      [] source = "PLL_OUTPUT" -> "syspll"
      [] source = "PLL_INPUT" -> IF pll_input = "IRC" THEN "irc" ELSE "sysosc"

\* the ordering of C10 for the sources other than the watchdog oscillator
MuxWriteAfterPower(i) ==
    /\ trace[i].reg = "syspllclksel" =>
           PoweredUpBefore(IF trace[i].val = "IRC" THEN "irc" ELSE "sysosc", i)
    /\ (trace[i].reg = "mainclksel" /\ trace[i].val = "IRC_OSCILLATOR") =>
           PoweredUpBefore("irc", i)
    /\ (trace[i].reg = "mainclksel" /\ trace[i].val \in {"PLL_INPUT", "PLL_OUTPUT"}) =>
           /\ PoweredUpBefore(SourceDomain(trace[i].val,
                                           Unwrapped(descriptor.system_pll_m_p)[1]), i)
           /\ PoweredUpBefore("syspll", i)
           /\ AccessedBefore("syspllstat", i)
    /\ (trace[i].reg = "sysahbclkdiv"
          /\ descriptor.main_clock_source # "WATCHDOG_OSCILLATOR") =>
           PoweredUpBefore(SourceDomain(descriptor.main_clock_source,
                                        IF IsSome(descriptor.system_pll_m_p)
                                        THEN Unwrapped(descriptor.system_pll_m_p)[1]
                                        ELSE "IRC"), i)

\* the ordering of C10 for the watchdog oscillator as main clock source
WatchdogWriteAfterPower(i) ==
    /\ (trace[i].reg = "mainclksel" /\ trace[i].val = "WATCHDOG_OSCILLATOR") =>
           /\ PoweredUpBefore("wdtosc", i)
           /\ AccessedBefore("wdtoscctrl", i)
    /\ (trace[i].reg = "sysahbclkdiv"
          /\ descriptor.main_clock_source = "WATCHDOG_OSCILLATOR") =>
           PoweredUpBefore("wdtosc", i)

\* C10: build writes no clock mux and no divider before it has powered the
\* domain the write depends on, switches the main clock to a PLL source only
\* after it has read the lock bit set, and with the watchdog oscillator as
\* source powers it and writes its band and divisor before the main clock
\* select.
C10_WritesAfterPower ==
    \A i \in 1..Len(trace) : MuxWriteAfterPower(i) /\ WatchdogWriteAfterPower(i)

----------------------------------------------------------------------------
(* Peripheral clock operations and interrupts *)

\* build has returned and the main program is in or between peripheral operations
InCapabilityPhase == pc \in CapabilityPositions

\* the field the interrupt handler owns in each shared register holds what the
\* handler last wrote
HandlerUpdateKept ==
    /\ hw.sysahbclkctrl[HandlerField("sysahbclkctrl")] = isr.sysahbclkctrl
    /\ hw.pdruncfg[HandlerField("pdruncfg")] = isr.pdruncfg

\* the bit an operation has just written with modify is in the register
CapabilityUpdateKept ==
    /\ pc = "usart_configure_uartclkdiv" => hw.sysahbclkctrl.usart
    /\ pc = "usb_wait_lock" => hw.pdruncfg.usbpll

\* C11: from the read to the write-back of every modify that
\* USARTClock::configure, USARTClock::disable, USBClock::configure and
\* Syscon::enable_gpio perform on sysahbclkctrl or pdruncfg, interrupts are
\* masked; and whenever an interrupt handler that changes another field of the
\* same register runs between the steps of these operations, neither the
\* handler's field nor the bit the operation wrote is lost.
C11_ModifyMasked ==
    InCapabilityPhase =>
        /\ IsSome(rmw) => primask
        /\ HandlerUpdateKept
        /\ CapabilityUpdateKept

\* the handler has changed its field of both registers, and USARTClock::configure
\* and then USBClock::configure have completed their modify: all four bits are set
C11_Witness ==
    /\ pc = "usb_wait_lock"
    /\ isr.sysahbclkctrl /\ isr.pdruncfg
    /\ hw.sysahbclkctrl.ct16b0 /\ hw.sysahbclkctrl.usart
    /\ hw.pdruncfg.adc /\ hw.pdruncfg.usbpll

----------------------------------------------------------------------------
(* Order of the last writes of build *)

\* the step of build that a trace entry belongs to
StepName(w) ==
    IF w.reg = "mainclkuen"
    THEN (IF w.val = "NO_CHANGE" THEN "mainclkuen_no_change" ELSE "mainclkuen_update")
    ELSE IF w.reg = "pdruncfg" /\ "syspll" \in w.val[1]
    THEN (IF w.val[2] THEN "syspll_power_up" ELSE "syspll_power_down")
    ELSE w.reg

\* where in trace a step was performed
StepAt(step) == {i \in 1..Len(trace) : StepName(trace[i]) = step}

\* the steps of order were performed each at most once, one after the other
\* as order lists them, none before the one listed ahead of it
PerformedInOrder(order) ==
    /\ \A a \in 1..Len(order) : Cardinality(StepAt(order[a])) <= 1
    /\ \A a, b \in 1..Len(order) : a < b =>
           /\ StepAt(order[b]) # {} => StepAt(order[a]) # {}
           /\ \A i \in StepAt(order[a]), j \in StepAt(order[b]) : i < j

\* once build has returned every step of order was performed, the last of
\* them last of all
AllPerformed(order) ==
    pc = "frozen" =>
        /\ \A a \in 1..Len(order) : StepAt(order[a]) # {}
        /\ StepName(trace[Len(trace)]) = order[Len(order)]

\* C12: build finishes strictly forward: it writes the main clock select, then
\* its two-write handshake (no change, then update), then the system clock
\* divider, then the flash access time, then enables the IOCON clock gate; each
\* of these writes happens once and none is repeated after a later one.
C12_MainClockBeforeDivider ==
    LET order == <<"mainclksel", "mainclkuen_no_change", "mainclkuen_update",
                   "sysahbclkdiv", "flashcfg", "sysahbclkctrl">>
    IN  hw # None => PerformedInOrder(order) /\ AllPerformed(order)

----------------------------------------------------------------------------
(* The system PLL in build *)

\* the plan handed to build contains a PLL
PllInPlan == IsSome(descriptor.system_pll_m_p)

\* the steps of build that write the PLL input select, the PLL control
\* register or the PLL power bit
PllSteps == {"syspllclksel", "syspllclkuen", "syspllctrl",
             "syspll_power_down", "syspll_power_up"}

\* power down, divider ratio, power up: in this order, once each, and the
\* ratio written is the (m, p) of the plan
PllDividerDiscipline ==
    LET order == <<"syspll_power_down", "syspllctrl", "syspll_power_up">>
    IN  /\ PerformedInOrder(order)
        /\ \A i \in StepAt("syspllctrl") :
               trace[i].val = <<Unwrapped(descriptor.system_pll_m_p)[2],
                                Unwrapped(descriptor.system_pll_m_p)[3]>>
        /\ pc \in {"build_return", "frozen"} =>
               \A a \in 1..Len(order) : StepAt(order[a]) # {}

\* the PLL control register has just been written: the PLL is without power
SyspllctrlWrittenUnpowered ==
    (trace # << >> /\ StepName(trace[Len(trace)]) = "syspllctrl") => ~hw.pdruncfg.syspll

\* C13: with a PLL in the plan build powers the system PLL down, then writes
\* the (m, p) of the plan to syspllctrl, then powers the PLL up, and syspllctrl
\* is never written while the PLL has power, whatever its state on entry;
\* without a PLL in the plan build writes neither the PLL input select, nor
\* syspllctrl, nor the PLL power bit.
C13_PllPoweredDownForDividers ==
    hw # None =>
        /\ PllInPlan => PllDividerDiscipline /\ SyspllctrlWrittenUnpowered
        /\ ~PllInPlan =>
               /\ \A step \in PllSteps : StepAt(step) = {}
               /\ hw.syspllclksel = "IRC" /\ hw.syspllctrl = <<0, 0>>

\* build has returned for a plan with a PLL: the PLL runs with the ratio of the plan
C13_Witness ==
    /\ pc = "frozen"
    /\ PllInPlan
    /\ StepAt("syspll_power_down") # {} /\ StepAt("syspllctrl") # {}
    /\ hw.pdruncfg.syspll
    /\ hw.syspllctrl = <<Unwrapped(descriptor.system_pll_m_p)[2],
                          Unwrapped(descriptor.system_pll_m_p)[3]>>

----------------------------------------------------------------------------
(* Termination of build *)

\* build has returned the Clocks handle
BuildReturned == pc = "frozen" /\ IsSome(clocks)

\* build is past the lock wait, or has written the main clock select, or has
\* produced the handle
PastLockWait ==
    \/ pc \in {"build_main_source_power", "build_sysahbclkdiv", "build_flashcfg",
               "build_mainclksel", "build_mainclkuen_no_change",
               "build_mainclkuen_update", "build_iocon", "build_return", "frozen"}
    \/ StepAt("mainclksel") # {}
    \/ IsSome(clocks)

\* the lock bit was read set, after the PLL was powered up
LockObserved ==
    \E i \in StepAt("syspllstat") : \A j \in StepAt("syspll_power_up") : j < i

\* with a PLL in the plan build gets past the lock wait only by reading the
\* lock bit set, and the settle loop counts no further than its limit
LockWaitHolds ==
    hw # None =>
        /\ (PllInPlan /\ PastLockWait) => LockObserved
        /\ settle_i <= SETTLE_LIMIT + 1

\* C14: build of a plan without a PLL always returns the Clocks handle; build
\* of a plan with a PLL always leaves the crystal settle loop and reaches the
\* lock wait, and returns the handle once the lock bit is set; while the lock
\* bit has not been read set build does not return, does not write the main
\* clock select and produces no handle.
C14_BuildTerminates ==
    /\ []LockWaitHolds
    /\ (pc = "build_pll_input_power" /\ ~PllInPlan) ~> BuildReturned
    /\ (pc = "build_pll_input_power" /\ PllInPlan) ~> (pc = "build_wait_lock")
    /\ (pc = "build_wait_lock" /\ hw.syspllstat) ~> BuildReturned

\* build has returned for a plan whose PLL runs from the crystal: the settle
\* loop ran to its limit and the lock was read
C14_Witness ==
    /\ BuildReturned
    /\ PllInPlan
    /\ Unwrapped(descriptor.system_pll_m_p)[1] = "CRYSTAL_OSCILLATOR"
    /\ settle_i = SETTLE_LIMIT + 1
    /\ LockObserved

----------------------------------------------------------------------------
(* The USART clock gate *)

\* a step that finds the USART clock gate enabled and leaves it disabled
UsartGateCleared ==
    /\ InCapabilityPhase
    /\ hw.sysahbclkctrl.usart
    /\ ~hw'.sysahbclkctrl.usart

\* C15: once USARTClock::configure has enabled the USART clock gate in
\* sysahbclkctrl, no step of Syscon::enable_gpio, USBClock::configure or a
\* further USARTClock::configure clears it: the only step that clears the bit
\* is the modify of USARTClock::disable.
C15_GateKeptUntilDisable ==
    [][UsartGateCleared => pc = "usart_disable_modify"]_vars

----------------------------------------------------------------------------
(* The USB PLL *)

\* a step of USBClock::configure that writes the USB PLL input select or the
\* USB PLL control register
UsbPllWritten ==
    /\ pc \in {"usb_usbpllclksel", "usb_usbpllctrl"}
    /\ pc' # pc

\* C16: whatever the sequence of USBClock::configure calls, usbpllclksel and
\* usbpllctrl are written only while the USB PLL is powered down: each
\* configure has the PLL without power before it changes the input select or
\* the (m, p) ratio.
C16_UsbPllWrittenUnpowered ==
    [][UsbPllWritten => ~hw.pdruncfg.usbpll]_vars

====
